---- MODULE Spec2Model ----
(***************************************************************************)
(* SlotSwapper backend: the events collection, the swap-request collection *)
(* and the Express handlers that read and write them.  Every handler is a  *)
(* sequence of database operations separated by awaits; one action of the  *)
(* model is one database operation together with the synchronous code that *)
(* follows it up to the next await.                                        *)
(*                                                                         *)
(* SpecSeq  starts from the empty database and runs one handler at a time, *)
(*          from its call to its response.                                 *)
(* SpecRace starts with two users owning one SWAPPABLE event each and      *)
(*          interleaves the handlers of all workers at every await.        *)
(* SpecEvents starts like SpecRace and runs one handler at a time, with    *)
(*          every title and instant an update may carry.                   *)
(* SpecFail starts like SpecRace and runs propose and respond one at a     *)
(*          time, where any single database write may reject.              *)
(* SpecList starts like SpecRace and runs one handler at a time, the       *)
(*          marketplace and request listings among them.                   *)
(* SpecLive is SpecRace with every worker's ready continuation run.        *)
(* SpecAlias starts like SpecRace and runs one handler at a time, the      *)
(*          routes named in the requirements among them.                   *)
(* SpecAuth is the frontend's session logic: sign-in, sign-out and the     *)
(*          refreshes of the AuthContext user, interleaved at every await. *)
(* SpecSwap starts like SpecRace and interleaves propose and respond calls *)
(*          only, for a longer run.                                        *)
(***************************************************************************)
EXTENDS Integers, Sequences, FiniteSets

\* ------------------------------------------------------------------ bounds
MaxEvents == 2      \* events ever created (ObjectIds 1..MaxEvents, never reused)
MaxRequests == 2    \* swap requests ever created
MaxCalls == 3       \* SpecRace: handler calls served in one run
MaxTime == 2        \* instants a start_time or end_time may name (1..MaxTime)
MaxSwapCalls == 5   \* SpecSwap: propose and respond calls served in one run
MaxRefresh == 2     \* SpecAuth: getCurrentUser requests in flight at once

Users == {"A", "B"}
Procs == {"w1", "w2"}   \* concurrently served HTTP requests

EventIds == 1..MaxEvents
RequestIds == 1..MaxRequests
NoId == 0           \* a missing body field (propose) / an invalid ObjectId (respond)

\* ------------------------------------------------------------- collections
EventStatus == {"BUSY", "SWAPPABLE", "SWAP_PENDING"}
RequestStatus == {"PENDING", "ACCEPTED", "REJECTED"}
\* what a caller may put in the optional `status` body field
StatusInputs == EventStatus \cup {"omitted"}

\* titles and instants; a body field that is absent is "omitted" / NoTime
Titles == {"t1", "t2"}
Times == 1..MaxTime
NoTime == 0
TitleInputs == Titles \cup {"omitted"}
TimeInputs == Times \cup {NoTime}

\* the result of a query that finds nothing (null)
NoEvent == [exists |-> FALSE, user_id |-> "-", status |-> "-",
            title |-> "-", start_time |-> 0, end_time |-> 0]
NoRequest == [exists |-> FALSE, requester_id |-> "-", requester_event_id |-> 0,
              recipient_id |-> "-", recipient_event_id |-> 0, status |-> "-"]

VARIABLES
    events,     \* Event collection: EventIds -> document or NoEvent
    numEvents,  \* number of ObjectIds handed out to events so far
    requests,   \* SwapRequest collection, in creation order (index = _id)
    pc,         \* per worker: where its handler stands
    frame,      \* per worker: the handler's arguments and local variables
    pre,        \* SpecSeq: the collections as the running call found them
    calls,      \* SpecRace: number of handler calls so far
    session     \* SpecAuth: the browser's token, AuthContext and pending calls

vars == <<events, numEvents, requests, pc, frame, pre, calls, session>>

\* the two collections, as one value
Collections == [events |-> events, requests |-> requests]

IdleFrame == [op |-> "-", user |-> "-", a |-> 0, b |-> 0, accept |-> FALSE,
              st |-> "-", title |-> "-", start_time |-> 0, end_time |-> 0,
              swapRequest |-> NoRequest,
              requesterEvent |-> NoEvent, recipientEvent |-> NoEvent,
              todo |-> {}, err |-> FALSE, code |-> "-", data |-> <<>>]

\* null: no token in localStorage, no user in the AuthContext, no request
\* in flight
NoUser == "-"

RefreshIds == 1..MaxRefresh

\* a browser that has never signed in, with the AuthProvider mounted
FreshSession ==
    [token   |-> NoUser,        \* localStorage 'token': whose token is stored
     user    |-> NoUser,        \* AuthContext user
     refresh |-> [r \in RefreshIds |-> NoUser],
                                \* getCurrentUser in flight: the token it carries
     signIn  |-> [pc |-> "idle", as |-> NoUser],
     signOut |-> "idle",
     out     |-> FALSE]         \* the token was last removed by a sign-out

Init ==
    /\ session = FreshSession
    /\ events = [i \in EventIds |-> NoEvent]
    /\ numEvents = 0
    /\ requests = <<>>
    /\ pc = [p \in Procs |-> "idle"]
    /\ frame = [p \in Procs |-> IdleFrame]
    /\ pre = Collections
    /\ calls = 0

\* the slot the callers of the swap specifications create: the swap handlers
\* never read or write an event's title or times
Slot == [title |-> "t1", start_time |-> 1, end_time |-> 2]

\* A has created event 1 and B event 2, both marked SWAPPABLE
RaceEvents ==
    [i \in EventIds |->
        IF i = 1 THEN [exists |-> TRUE, user_id |-> "A", status |-> "SWAPPABLE",
                       title |-> Slot.title, start_time |-> Slot.start_time,
                       end_time |-> Slot.end_time]
        ELSE IF i = 2 THEN [exists |-> TRUE, user_id |-> "B", status |-> "SWAPPABLE",
                            title |-> Slot.title, start_time |-> Slot.start_time,
                            end_time |-> Slot.end_time]
        ELSE NoEvent]

InitRace ==
    /\ session = FreshSession
    /\ events = RaceEvents
    /\ numEvents = 2
    /\ requests = <<>>
    /\ pc = [p \in Procs |-> "idle"]
    /\ frame = [p \in Procs |-> IdleFrame]
    /\ pre = Collections
    /\ calls = 0

\* ------------------------------------------------------------ persistence
\* Model.findById(id): the stored document, or null
FindEvent(id) == IF id \in EventIds THEN events[id] ELSE NoEvent

FindRequest(id) ==
    IF id \in 1..Len(requests) THEN requests[id] ELSE NoRequest

\* (mutant: the user_id condition left out of the filter)
FindOwnedEventAnyUser(id, user) == FindEvent(id)

\* Event.findOne({ _id: id, user_id: user })
FindOwnedEvent(id, user) ==
    IF FindEvent(id).exists /\ FindEvent(id).user_id = user
    THEN FindEvent(id) ELSE NoEvent

\* (mutant: the _id left out of the filter, every event is updated)
UpdateStatusEverywhere(ev, id, s) ==
    [e \in EventIds |-> IF ev[e].exists THEN [ev[e] EXCEPT !.status = s]
                        ELSE ev[e]]

\* Event.findByIdAndUpdate(id, { status: s }): no-op when no document matches
UpdateStatusById(ev, id, s) ==
    IF id \in EventIds /\ ev[id].exists
    THEN [ev EXCEPT ![id].status = s] ELSE ev

\* -------------------------------------------------------------- plumbing
\* the frame of a handler at its call: the caller and the arguments
CallFrame(op, user, a, b, accept, st) ==
    [IdleFrame EXCEPT !.op = op, !.user = user, !.a = a, !.b = b,
                      !.accept = accept, !.st = st]

\* res.status(...).json(...): the handler's response; its locals are dead
Respond(f, c) ==
    [CallFrame(f.op, f.user, f.a, f.b, f.accept, f.st)
        EXCEPT !.code = c, !.title = f.title,
               !.start_time = f.start_time, !.end_time = f.end_time]

Go(p, f, next) ==
    /\ pc' = [pc EXCEPT ![p] = next]
    /\ frame' = [frame EXCEPT ![p] = f]

\* the two members of a Promise.all over the requester and recipient event
Both == {"requester", "recipient"}

\* workers whose propose has passed its checks or may still pass them
Proposing == {p \in Procs : pc[p] \in {"p_read", "p_save"}}

\* ---------------------------------------------- POST /api/swap-requests
\* (mutant: the swappable check written with && instead of ||)
ProposeCheckBothNotSwappable(user, requesterEvent, recipientEvent) ==
    IF ~requesterEvent.exists \/ ~recipientEvent.exists THEN "NotFound"
    ELSE IF requesterEvent.user_id # user THEN "Forbidden"
    ELSE IF requesterEvent.status # "SWAPPABLE"
            /\ recipientEvent.status # "SWAPPABLE" THEN "NotSwappable"
    ELSE "pass"

\* (mutant: the ownership check left out)
ProposeCheckAnyOwner(user, requesterEvent, recipientEvent) ==
    IF ~requesterEvent.exists \/ ~recipientEvent.exists THEN "NotFound"
    ELSE IF requesterEvent.status # "SWAPPABLE"
            \/ recipientEvent.status # "SWAPPABLE" THEN "NotSwappable"
    ELSE "pass"

\* the early returns of the create-request handler after both reads
ProposeCheck(user, requesterEvent, recipientEvent) ==
    IF ~requesterEvent.exists \/ ~recipientEvent.exists THEN "NotFound"
    ELSE IF requesterEvent.user_id # user THEN "Forbidden"
    ELSE IF requesterEvent.status # "SWAPPABLE"
            \/ recipientEvent.status # "SWAPPABLE" THEN "NotSwappable"
    ELSE "pass"

\* (mutant: the recipient taken from the caller instead of the event's owner)
NewSwapRequestToSelf(user, mySlotId, theirSlotId, recipientEvent) ==
    [exists |-> TRUE, requester_id |-> user, requester_event_id |-> mySlotId,
     recipient_id |-> user,
     recipient_event_id |-> theirSlotId, status |-> "PENDING"]

\* new SwapRequest({...})
NewSwapRequest(user, mySlotId, theirSlotId, recipientEvent) ==
    [exists |-> TRUE, requester_id |-> user, requester_event_id |-> mySlotId,
     recipient_id |-> recipientEvent.user_id,
     recipient_event_id |-> theirSlotId, status |-> "PENDING"]

\* the status both events are given once the request is saved
LockStatus == "SWAP_PENDING"

ProposeCall(p, user, mySlotId, theirSlotId) ==
    /\ pc[p] = "idle"
    /\ Len(requests) + Cardinality(Proposing) < MaxRequests
    /\ IF mySlotId = NoId \/ theirSlotId = NoId
       THEN Go(p, Respond(CallFrame("propose", user, mySlotId, theirSlotId,
                                    FALSE, "-"), "BadRequest"), "done")
       ELSE Go(p, [CallFrame("propose", user, mySlotId, theirSlotId, FALSE, "-")
                     EXCEPT !.todo = Both], "p_read")
    /\ UNCHANGED <<events, numEvents, requests>>

\* one of the two Event.findById of the Promise.all; after the second, the checks
ProposeRead(p, which) ==
    /\ pc[p] = "p_read"
    /\ which \in frame[p].todo
    /\ LET f0 == frame[p]
           f1 == IF which = "requester"
                 THEN [f0 EXCEPT !.requesterEvent = FindEvent(f0.a),
                                 !.todo = @ \ {which}]
                 ELSE [f0 EXCEPT !.recipientEvent = FindEvent(f0.b),
                                 !.todo = @ \ {which}]
           verdict == ProposeCheck(f1.user, f1.requesterEvent, f1.recipientEvent)
       IN  IF f1.todo # {} THEN Go(p, f1, "p_read")
           ELSE IF verdict # "pass" THEN Go(p, Respond(f1, verdict), "done")
           ELSE Go(p, f1, "p_save")
    /\ UNCHANGED <<events, numEvents, requests>>

\* await swapRequest.save()
ProposeSave(p) ==
    /\ pc[p] = "p_save"
    /\ LET f == frame[p]
       IN  /\ requests' = Append(requests,
                 NewSwapRequest(f.user, f.a, f.b, f.recipientEvent))
           /\ Go(p, [f EXCEPT !.todo = Both], "p_lock")
    /\ UNCHANGED <<events, numEvents>>

\* (mutant: the lock is taken only once the event is free of a lock, and
\* awaited until then)
ProposeLockWaits(p, which) ==
    /\ pc[p] = "p_lock"
    /\ which \in frame[p].todo
    /\ LET f == frame[p]
           id == IF which = "requester" THEN f.a ELSE f.b
           f1 == [f EXCEPT !.todo = @ \ {which}]
       IN  /\ FindEvent(id).status # LockStatus
           /\ events' = UpdateStatusById(events, id, LockStatus)
           /\ IF f1.todo # {} THEN Go(p, f1, "p_lock")
              ELSE Go(p, Respond(f1, IF f1.err THEN "ServerError" ELSE "Created"),
                      "done")
    /\ UNCHANGED <<numEvents, requests>>

\* one of the two Event.findByIdAndUpdate(id, { status: 'SWAP_PENDING' });
\* after the second, the populated request is read back and returned
ProposeLock(p, which) ==
    /\ pc[p] = "p_lock"
    /\ which \in frame[p].todo
    /\ LET f == frame[p]
           id == IF which = "requester" THEN f.a ELSE f.b
           f1 == [f EXCEPT !.todo = @ \ {which}]
       IN  /\ events' = UpdateStatusById(events, id, LockStatus)
           /\ IF f1.todo # {} THEN Go(p, f1, "p_lock")
              ELSE Go(p, Respond(f1, IF f1.err THEN "ServerError" ELSE "Created"),
                      "done")
    /\ UNCHANGED <<numEvents, requests>>

\* swapRequest.save() rejects: the catch block answers 500
ProposeSaveFails(p) ==
    /\ pc[p] = "p_save"
    /\ Go(p, Respond(frame[p], "ServerError"), "done")
    /\ UNCHANGED <<events, numEvents, requests>>

\* one of the two findByIdAndUpdate rejects: Promise.all rejects and the catch
\* block answers 500; the other update, already sent, is not withdrawn
ProposeLockFails(p, which) ==
    /\ pc[p] = "p_lock"
    /\ which \in frame[p].todo
    /\ LET f1 == [frame[p] EXCEPT !.todo = @ \ {which}, !.err = TRUE]
       IN  IF f1.todo # {} THEN Go(p, f1, "p_lock")
           ELSE Go(p, Respond(f1, "ServerError"), "done")
    /\ UNCHANGED <<events, numEvents, requests>>

\* ------------------------------------ PUT /api/swap-requests/:id/respond
\* (mutant: the pending check left out)
RespondCheckNoPending(user, swapRequest, requesterEvent, recipientEvent) ==
    IF ~swapRequest.exists THEN "NotFound"
    ELSE IF swapRequest.recipient_id # user THEN "Forbidden"
    ELSE IF ~requesterEvent.exists \/ ~recipientEvent.exists THEN "NotFound"
    ELSE "pass"

\* (mutant: the recipient check left out)
RespondCheckAnyUser(user, swapRequest, requesterEvent, recipientEvent) ==
    IF ~swapRequest.exists THEN "NotFound"
    ELSE IF swapRequest.status # "PENDING" THEN "AlreadyResolved"
    ELSE IF ~requesterEvent.exists \/ ~recipientEvent.exists THEN "NotFound"
    ELSE "pass"

\* (mutant: the check that both events still exist left out)
RespondCheckNoEvents(user, swapRequest, requesterEvent, recipientEvent) ==
    IF ~swapRequest.exists THEN "NotFound"
    ELSE IF swapRequest.recipient_id # user THEN "Forbidden"
    ELSE IF swapRequest.status # "PENDING" THEN "AlreadyResolved"
    ELSE "pass"

\* the early returns of the respond handler after the populated load
RespondCheck(user, swapRequest, requesterEvent, recipientEvent) ==
    IF ~swapRequest.exists THEN "NotFound"
    ELSE IF swapRequest.recipient_id # user THEN "Forbidden"
    ELSE IF swapRequest.status # "PENDING" THEN "AlreadyResolved"
    ELSE IF ~requesterEvent.exists \/ ~recipientEvent.exists THEN "NotFound"
    ELSE "pass"

\* (mutant: the ternary's branches exchanged)
NewStatusFlipped(accept) == IF accept THEN "REJECTED" ELSE "ACCEPTED"

NewStatus(accept) == IF accept THEN "ACCEPTED" ELSE "REJECTED"

\* (mutant: the temporary forgotten, both events get the recipient event's owner)
SwappedOwnerNoTemp(which, requesterEvent, recipientEvent) ==
    recipientEvent.user_id

\* the owner an event document is given in the accept branch
SwappedOwner(which, requesterEvent, recipientEvent) ==
    IF which = "requester" THEN recipientEvent.user_id
    ELSE requesterEvent.user_id

\* the status both events are given in the accept branch
AcceptedStatus == "BUSY"

\* (mutant: the reject branch sets BUSY)
ReleasedStatusBusy == "BUSY"

\* the status both events are given in the reject branch
ReleasedStatus == "SWAPPABLE"

\* (mutant: save() writes the whole loaded document back)
SaveEventWholeDocument(stored, loaded, owner, status) ==
    [stored EXCEPT !.user_id = owner, !.status = status]

\* document.save() of a loaded event: only the paths whose value differs from
\* the loaded one are written
SaveEvent(stored, loaded, owner, status) ==
    [stored EXCEPT !.user_id = IF owner # loaded.user_id THEN owner ELSE @,
                   !.status = IF status # loaded.status THEN status ELSE @]

\* SwapRequest.findById(id): the request as it is stored now
RespondCall(p, user, id, accept) ==
    /\ pc[p] = "idle"
    /\ LET f == CallFrame("respond", user, id, 0, accept, "-")
       IN  IF id = NoId THEN Go(p, Respond(f, "BadRequest"), "done")
           ELSE IF ~FindRequest(id).exists
           THEN Go(p, Respond(f, RespondCheck(user, NoRequest, NoEvent, NoEvent)),
                   "done")
           ELSE Go(p, [f EXCEPT !.swapRequest = FindRequest(id), !.todo = Both],
                   "r_populate")
    /\ UNCHANGED <<events, numEvents, requests>>

\* .populate('requester_event_id') / .populate('recipient_event_id'); after
\* the second, the checks
RespondPopulate(p, which) ==
    /\ pc[p] = "r_populate"
    /\ which \in frame[p].todo
    /\ LET f0 == frame[p]
           f1 == IF which = "requester"
                 THEN [f0 EXCEPT !.requesterEvent =
                                     FindEvent(f0.swapRequest.requester_event_id),
                                 !.todo = @ \ {which}]
                 ELSE [f0 EXCEPT !.recipientEvent =
                                     FindEvent(f0.swapRequest.recipient_event_id),
                                 !.todo = @ \ {which}]
           verdict == RespondCheck(f1.user, f1.swapRequest, f1.requesterEvent,
                                   f1.recipientEvent)
       IN  IF f1.todo # {} THEN Go(p, f1, "r_populate")
           ELSE IF verdict # "pass" THEN Go(p, Respond(f1, verdict), "done")
           ELSE Go(p, f1, "r_save")
    /\ UNCHANGED <<events, numEvents, requests>>

\* swapRequest.status = newStatus; await swapRequest.save()
RespondSave(p) ==
    /\ pc[p] = "r_save"
    /\ LET f == frame[p]
       IN  /\ requests' = [requests EXCEPT ![f.a].status = NewStatus(f.accept)]
           /\ Go(p, [f EXCEPT !.todo = Both], "r_events")
    /\ UNCHANGED <<events, numEvents>>

\* swapRequest.save() rejects: the catch block answers 500
RespondSaveFails(p) ==
    /\ pc[p] = "r_save"
    /\ Go(p, Respond(frame[p], "ServerError"), "done")
    /\ UNCHANGED <<events, numEvents, requests>>

\* one of the two event writes rejects: Promise.all rejects and the catch
\* block answers 500; the other write, already sent, is not withdrawn
RespondEventWriteFails(p, which) ==
    /\ pc[p] = "r_events"
    /\ which \in frame[p].todo
    /\ LET f1 == [frame[p] EXCEPT !.todo = @ \ {which}, !.err = TRUE]
       IN  IF f1.todo # {} THEN Go(p, f1, "r_events")
           ELSE Go(p, Respond(f1, "ServerError"), "done")
    /\ UNCHANGED <<events, numEvents, requests>>

\* accept: one of requesterEvent.save() / recipientEvent.save(), which rejects
\* when the document is gone; reject: one of the two findByIdAndUpdate.
\* After the second, the populated request is read back and returned.
RespondEventWrite(p, which) ==
    /\ pc[p] = "r_events"
    /\ which \in frame[p].todo
    /\ LET f == frame[p]
           loaded == IF which = "requester" THEN f.requesterEvent
                     ELSE f.recipientEvent
           id == IF which = "requester" THEN f.swapRequest.requester_event_id
                 ELSE f.swapRequest.recipient_event_id
           gone == f.accept /\ ~events[id].exists
           f1 == [f EXCEPT !.todo = @ \ {which}, !.err = @ \/ gone]
       IN  /\ events' =
                 IF ~f.accept THEN UpdateStatusById(events, id, ReleasedStatus)
                 ELSE IF gone THEN events
                 ELSE [events EXCEPT ![id] =
                          SaveEvent(@, loaded,
                              SwappedOwner(which, f.requesterEvent, f.recipientEvent),
                              AcceptedStatus)]
           /\ IF f1.todo # {} THEN Go(p, f1, "r_events")
              ELSE Go(p, Respond(f1, IF f1.err THEN "ServerError" ELSE "OK"), "done")
    /\ UNCHANGED <<numEvents, requests>>

\* -------------------------------------------------------- /api/events
\* status: status || 'BUSY', then the schema's enum validator
CreatedStatus(st) == IF st = "omitted" THEN "BUSY" ELSE st

\* the early returns of the create handler
CreateCheck(title, start_time, end_time) ==
    IF title = "omitted" \/ start_time = NoTime \/ end_time = NoTime
    THEN "BadRequest"
    ELSE IF end_time <= start_time THEN "BadTimes"
    ELSE "pass"

\* POST /api/events
CreateEvent(p, user, st, title, start_time, end_time) ==
    /\ pc[p] = "idle"
    /\ numEvents < MaxEvents
    /\ LET f == [CallFrame("create", user, numEvents + 1, 0, FALSE, st)
                   EXCEPT !.title = title, !.start_time = start_time,
                          !.end_time = end_time]
           verdict == CreateCheck(title, start_time, end_time)
       IN  IF verdict # "pass"
           THEN /\ Go(p, Respond(f, verdict), "done")
                /\ UNCHANGED <<events, numEvents>>
           ELSE IF CreatedStatus(st) \notin EventStatus
           THEN /\ Go(p, Respond(f, "ServerError"), "done")
                /\ UNCHANGED <<events, numEvents>>
           ELSE /\ events' = [events EXCEPT ![numEvents + 1] =
                       [exists |-> TRUE, user_id |-> user,
                        status |-> CreatedStatus(st), title |-> title,
                        start_time |-> start_time, end_time |-> end_time]]
                /\ numEvents' = numEvents + 1
                /\ Go(p, Respond(f, "Created"), "done")
    /\ UNCHANGED requests

\* (mutant: the SWAP_PENDING guard left out)
UpdateCheckNoLock(event) ==
    IF ~event.exists THEN "NotFound"
    ELSE "pass"

\* the early returns of the update handler after findOne
UpdateCheck(event) ==
    IF ~event.exists THEN "NotFound"
    ELSE IF event.status = "SWAP_PENDING" THEN "Locked"
    ELSE "pass"

\* PUT /api/events/:id: Event.findOne({ _id, user_id }) and the checks
UpdateCall(p, user, id, st, title, start_time, end_time) ==
    /\ pc[p] = "idle"
    /\ LET f == [CallFrame("update", user, id, 0, FALSE, st)
                   EXCEPT !.requesterEvent = FindOwnedEvent(id, user),
                          !.title = title, !.start_time = start_time,
                          !.end_time = end_time]
           verdict == UpdateCheck(f.requesterEvent)
       IN  IF verdict # "pass" THEN Go(p, Respond(f, verdict), "done")
           ELSE Go(p, f, "u_save")
    /\ UNCHANGED <<events, numEvents, requests>>

\* if (title) event.title = title; ... start_time, end_time: document.save()
\* writes the paths whose value differs from the loaded one
SaveDetails(stored, loaded, title, start_time, end_time) ==
    [stored EXCEPT
        !.title = IF title # "omitted" /\ title # loaded.title THEN title ELSE @,
        !.start_time = IF start_time # NoTime /\ start_time # loaded.start_time
                       THEN start_time ELSE @,
        !.end_time = IF end_time # NoTime /\ end_time # loaded.end_time
                     THEN end_time ELSE @]

\* if (status) event.status = status; await event.save()
UpdateSave(p) ==
    /\ pc[p] = "u_save"
    /\ LET f == frame[p]
           st == IF f.st = "omitted" THEN f.requesterEvent.status ELSE f.st
       IN  IF st \notin EventStatus \/ ~events[f.a].exists
           THEN /\ Go(p, Respond(f, "ServerError"), "done")
                /\ UNCHANGED events
           ELSE /\ events' = [events EXCEPT ![f.a] =
                       SaveDetails(
                           SaveEvent(@, f.requesterEvent, f.requesterEvent.user_id, st),
                           f.requesterEvent, f.title, f.start_time, f.end_time)]
                /\ Go(p, Respond(f, "OK"), "done")
    /\ UNCHANGED <<numEvents, requests>>

\* DELETE /api/events/:id: Event.findOne({ _id, user_id })
DeleteCall(p, user, id) ==
    /\ pc[p] = "idle"
    /\ LET f == [CallFrame("delete", user, id, 0, FALSE, "-")
                   EXCEPT !.requesterEvent = FindOwnedEvent(id, user)]
       IN  IF ~f.requesterEvent.exists THEN Go(p, Respond(f, "NotFound"), "done")
           ELSE Go(p, f, "d_delete")
    /\ UNCHANGED <<events, numEvents, requests>>

\* await event.deleteOne()
DeleteOne(p) ==
    /\ pc[p] = "d_delete"
    /\ events' = [events EXCEPT ![frame[p].a] = NoEvent]
    /\ Go(p, Respond(frame[p], "OK"), "done")
    /\ UNCHANGED <<numEvents, requests>>

\* --------------------------------------------------------------- listings
\* every order in which the documents of a set may be returned
Orderings(S) ==
    {s \in [1..Cardinality(S) -> S] :
        \A i, j \in 1..Cardinality(S) : i # j => s[i] # s[j]}

\* (mutant: the user_id condition left out of the filter)
SwappableOfAnyone(user) ==
    {e \in EventIds : events[e].exists /\ events[e].status = "SWAPPABLE"}

\* Event.find({ status: 'SWAPPABLE', user_id: { $ne: user } })
SwappableOfOthers(user) ==
    {e \in EventIds : /\ events[e].exists
                      /\ events[e].status = "SWAPPABLE"
                      /\ events[e].user_id # user}

\* .sort({ start_time: 1 }): ascending; documents with equal keys come in
\* an order the database does not specify
SortedByStartTime(S) ==
    {s \in Orderings(S) :
        \A i, j \in 1..Cardinality(S) :
            i < j => events[s[i]].start_time <= events[s[j]].start_time}

\* the two routes that serve the marketplace listing
MarketRoutes == {"swappable-slots", "events/swappable"}

\* GET /api/swappable-slots and GET /api/events/swappable: one query, then
\* res.json({ data: events })
ListSwappable(p, user, route) ==
    /\ pc[p] = "idle"
    /\ \E d \in SortedByStartTime(SwappableOfOthers(user)) :
          Go(p, [CallFrame(route, user, NoId, NoId, FALSE, "-")
                    EXCEPT !.code = "OK", !.data = d], "done")
    /\ UNCHANGED <<events, numEvents, requests>>

\* SwapRequest.find({ recipient_id: user })
Incoming(user) ==
    {i \in 1..Len(requests) : requests[i].recipient_id = user}

\* SwapRequest.find({ requester_id: user })
Outgoing(user) ==
    {i \in 1..Len(requests) : requests[i].requester_id = user}

\* the sort key of a request: the schema option timestamps: true stores the
\* creation time as createdAt, so no document has a created_at field and
\* every document sorts as null
created_at(i) == NoTime

\* .sort({ created_at: -1 }): descending; documents with equal keys come in
\* an order the database does not specify
SortedByCreatedAt(S) ==
    {s \in Orderings(S) :
        \A i, j \in 1..Cardinality(S) :
            i < j => created_at(s[i]) >= created_at(s[j])}

\* GET /api/swap-requests/incoming
ListIncoming(p, user) ==
    /\ pc[p] = "idle"
    /\ \E d \in SortedByCreatedAt(Incoming(user)) :
          Go(p, [CallFrame("incoming", user, NoId, NoId, FALSE, "-")
                    EXCEPT !.code = "OK", !.data = d], "done")
    /\ UNCHANGED <<events, numEvents, requests>>

\* GET /api/swap-requests/outgoing
ListOutgoing(p, user) ==
    /\ pc[p] = "idle"
    /\ \E d \in SortedByCreatedAt(Outgoing(user)) :
          Go(p, [CallFrame("outgoing", user, NoId, NoId, FALSE, "-")
                    EXCEPT !.code = "OK", !.data = d], "done")
    /\ UNCHANGED <<events, numEvents, requests>>

\* ------------------------------------------------ POST /api/swap-request
\* (mutant: the status check of the requirements route left out)
AliasProposeCheckNoStatus(user, requesterEvent, recipientEvent) ==
    IF ~requesterEvent.exists \/ ~recipientEvent.exists THEN "NotFound"
    ELSE IF requesterEvent.user_id # user THEN "Forbidden"
    ELSE "pass"

\* the early returns of the requirements route after both reads
AliasProposeCheck(user, requesterEvent, recipientEvent) ==
    IF ~requesterEvent.exists \/ ~recipientEvent.exists THEN "NotFound"
    ELSE IF requesterEvent.user_id # user THEN "Forbidden"
    ELSE IF requesterEvent.status # "SWAPPABLE"
            \/ recipientEvent.status # "SWAPPABLE" THEN "NotSwappable"
    ELSE "pass"

\* new SwapRequest({...}) of the requirements route
AliasNewSwapRequest(user, mySlotId, theirSlotId, recipientEvent) ==
    [exists |-> TRUE, requester_id |-> user, requester_event_id |-> mySlotId,
     recipient_id |-> recipientEvent.user_id,
     recipient_event_id |-> theirSlotId, status |-> "PENDING"]

\* const { mySlotId, theirSlotId } = req.body and the 400 for a missing id
AliasProposeCall(p, user, mySlotId, theirSlotId) ==
    /\ pc[p] = "idle"
    /\ Len(requests) < MaxRequests
    /\ IF mySlotId = NoId \/ theirSlotId = NoId
       THEN Go(p, Respond(CallFrame("swap-request", user, mySlotId, theirSlotId,
                                    FALSE, "-"), "BadRequest"), "done")
       ELSE Go(p, [CallFrame("swap-request", user, mySlotId, theirSlotId,
                             FALSE, "-") EXCEPT !.todo = Both], "ap_read")
    /\ UNCHANGED <<events, numEvents, requests>>

\* one of the two Event.findById of the Promise.all; after the second, the checks
AliasProposeRead(p, which) ==
    /\ pc[p] = "ap_read"
    /\ which \in frame[p].todo
    /\ LET f0 == frame[p]
           f1 == IF which = "requester"
                 THEN [f0 EXCEPT !.requesterEvent = FindEvent(f0.a),
                                 !.todo = @ \ {which}]
                 ELSE [f0 EXCEPT !.recipientEvent = FindEvent(f0.b),
                                 !.todo = @ \ {which}]
           verdict == AliasProposeCheck(f1.user, f1.requesterEvent,
                                        f1.recipientEvent)
       IN  IF f1.todo # {} THEN Go(p, f1, "ap_read")
           ELSE IF verdict # "pass" THEN Go(p, Respond(f1, verdict), "done")
           ELSE Go(p, f1, "ap_save")
    /\ UNCHANGED <<events, numEvents, requests>>

\* await SwapReq.save()
AliasProposeSave(p) ==
    /\ pc[p] = "ap_save"
    /\ LET f == frame[p]
       IN  /\ requests' = Append(requests,
                 AliasNewSwapRequest(f.user, f.a, f.b, f.recipientEvent))
           /\ Go(p, [f EXCEPT !.todo = Both], "ap_lock")
    /\ UNCHANGED <<events, numEvents>>

\* one of the two Event.findByIdAndUpdate(id, { status: 'SWAP_PENDING' });
\* after the second, the populated request is read back and answered 201
AliasProposeLock(p, which) ==
    /\ pc[p] = "ap_lock"
    /\ which \in frame[p].todo
    /\ LET f == frame[p]
           id == IF which = "requester" THEN f.a ELSE f.b
           f1 == [f EXCEPT !.todo = @ \ {which}]
       IN  /\ events' = UpdateStatusById(events, id, "SWAP_PENDING")
           /\ IF f1.todo # {} THEN Go(p, f1, "ap_lock")
              ELSE Go(p, Respond(f1, "Created"), "done")
    /\ UNCHANGED <<numEvents, requests>>

\* --------------------------------- POST /api/swap-response/:requestId
\* the early returns of swapResponseHandler after the populated load
AliasRespondCheck(user, swapRequest, requesterEvent, recipientEvent) ==
    IF ~swapRequest.exists THEN "NotFound"
    ELSE IF swapRequest.recipient_id # user THEN "Forbidden"
    ELSE IF swapRequest.status # "PENDING" THEN "AlreadyResolved"
    ELSE IF ~requesterEvent.exists \/ ~recipientEvent.exists THEN "NotFound"
    ELSE "pass"

\* const newStatus = accept ? 'ACCEPTED' : 'REJECTED'
AliasNewStatus(accept) == IF accept THEN "ACCEPTED" ELSE "REJECTED"

\* tempUserId, then the two assignments of user_id
AliasSwappedOwner(which, requesterEvent, recipientEvent) ==
    IF which = "requester" THEN recipientEvent.user_id
    ELSE requesterEvent.user_id

\* isValidObjectId(requestId), then SwapRequest.findById(requestId)
AliasRespondCall(p, user, requestId, accept) ==
    /\ pc[p] = "idle"
    /\ LET f == CallFrame("swap-response", user, requestId, 0, accept, "-")
       IN  IF requestId = NoId THEN Go(p, Respond(f, "BadRequest"), "done")
           ELSE IF ~FindRequest(requestId).exists
           THEN Go(p, Respond(f, AliasRespondCheck(user, NoRequest, NoEvent,
                                                   NoEvent)), "done")
           ELSE Go(p, [f EXCEPT !.swapRequest = FindRequest(requestId),
                                !.todo = Both], "ar_populate")
    /\ UNCHANGED <<events, numEvents, requests>>

\* .populate('requester_event_id') / .populate('recipient_event_id'); after
\* the second, the checks
AliasRespondPopulate(p, which) ==
    /\ pc[p] = "ar_populate"
    /\ which \in frame[p].todo
    /\ LET f0 == frame[p]
           f1 == IF which = "requester"
                 THEN [f0 EXCEPT !.requesterEvent =
                                     FindEvent(f0.swapRequest.requester_event_id),
                                 !.todo = @ \ {which}]
                 ELSE [f0 EXCEPT !.recipientEvent =
                                     FindEvent(f0.swapRequest.recipient_event_id),
                                 !.todo = @ \ {which}]
           verdict == AliasRespondCheck(f1.user, f1.swapRequest,
                                        f1.requesterEvent, f1.recipientEvent)
       IN  IF f1.todo # {} THEN Go(p, f1, "ar_populate")
           ELSE IF verdict # "pass" THEN Go(p, Respond(f1, verdict), "done")
           ELSE Go(p, f1, "ar_save")
    /\ UNCHANGED <<events, numEvents, requests>>

\* swapRequest.status = newStatus; await swapRequest.save()
AliasRespondSave(p) ==
    /\ pc[p] = "ar_save"
    /\ LET f == frame[p]
       IN  /\ requests' = [requests EXCEPT ![f.a].status = AliasNewStatus(f.accept)]
           /\ Go(p, [f EXCEPT !.todo = Both], "ar_events")
    /\ UNCHANGED <<events, numEvents>>

\* accept: one of requesterEvent.save() / recipientEvent.save(), which rejects
\* when the document is gone; reject: one of the two findByIdAndUpdate.
\* After the second, the populated request is read back and returned.
AliasRespondEventWrite(p, which) ==
    /\ pc[p] = "ar_events"
    /\ which \in frame[p].todo
    /\ LET f == frame[p]
           loaded == IF which = "requester" THEN f.requesterEvent
                     ELSE f.recipientEvent
           id == IF which = "requester" THEN f.swapRequest.requester_event_id
                 ELSE f.swapRequest.recipient_event_id
           gone == f.accept /\ ~events[id].exists
           f1 == [f EXCEPT !.todo = @ \ {which}, !.err = @ \/ gone]
       IN  /\ events' =
                 IF ~f.accept THEN UpdateStatusById(events, id, "SWAPPABLE")
                 ELSE IF gone THEN events
                 ELSE [events EXCEPT ![id] =
                          SaveEvent(@, loaded,
                              AliasSwappedOwner(which, f.requesterEvent,
                                                f.recipientEvent),
                              "BUSY")]
           /\ IF f1.todo # {} THEN Go(p, f1, "ar_events")
              ELSE Go(p, Respond(f1, IF f1.err THEN "ServerError" ELSE "OK"), "done")
    /\ UNCHANGED <<numEvents, requests>>

\* ------------------------------------------------ frontend session logic
\* the server side of the session calls changes nothing in the collections
Browser(A) ==
    /\ A
    /\ UNCHANGED <<events, numEvents, requests, pc, frame, pre, calls>>

\* refreshUser(): without a token setUser(null); with one, getCurrentUser is
\* sent with that token and awaited (slot r)
RefreshUser(s, r) ==
    IF s.token = NoUser THEN [s EXCEPT !.user = NoUser]
    ELSE [s EXCEPT !.refresh[r] = s.token]

\* the slots a new getCurrentUser may take: any free one; none is needed
\* when no token is stored
FreeSlots(s) ==
    IF s.token = NoUser THEN RefreshIds
    ELSE {r \in RefreshIds : s.refresh[r] = NoUser}

\* the Auth page, which leaves for the dashboard once the AuthContext has a
\* user, submits the sign-in form: apiClient.signIn sends the request
SignInCall(u) ==
    /\ session.signIn.pc = "idle"
    /\ session.user = NoUser
    /\ session' = [session EXCEPT !.signIn = [pc |-> "sent", as |-> u]]

\* the sign-in request is answered: with a token, which is stored, or with an
\* error, which ends the call
SignInReply(ok) ==
    /\ session.signIn.pc = "sent"
    /\ session' = IF ok
                  THEN [session EXCEPT !.token = session.signIn.as,
                                       !.out = FALSE,
                                       !.signIn.pc = "stored"]
                  ELSE [session EXCEPT !.signIn = FreshSession.signIn]

\* signIn in lib/auth resumes: dispatchEvent('auth-change') runs refreshUser
SignInDispatch(r) ==
    /\ session.signIn.pc = "stored"
    /\ r \in FreeSlots(session)
    /\ session' = [RefreshUser(session, r) EXCEPT !.signIn.pc = "dispatched"]

\* the Auth page resumes: await refreshUser()
SignInRefresh(r) ==
    /\ session.signIn.pc = "dispatched"
    /\ r \in FreeSlots(session)
    /\ session' = [RefreshUser(session, r) EXCEPT !.signIn = FreshSession.signIn]

\* getCurrentUser of slot r is answered: with the user of the token it
\* carried, who becomes the AuthContext user, or with an error, on which the
\* stored token is removed and the user set to null
RefreshReply(r, ok) ==
    /\ session.refresh[r] # NoUser
    /\ session' = IF ok
                  THEN [session EXCEPT !.user = session.refresh[r],
                                       !.refresh[r] = NoUser]
                  ELSE [session EXCEPT !.token = NoUser, !.user = NoUser,
                                       !.refresh[r] = NoUser]

\* the Sign Out button, rendered while the AuthContext has a user:
\* apiClient.signOut sends the request
SignOutCall ==
    /\ session.signOut = "idle"
    /\ session.user # NoUser
    /\ session' = [session EXCEPT !.signOut = "sent"]

\* the sign-out request is answered, with success or not (request() turns
\* every failure into a result): localStorage.removeItem('token')
SignOutReply(ok) ==
    /\ session.signOut = "sent"
    /\ session' = [session EXCEPT !.token = NoUser, !.out = TRUE,
                                  !.signOut = "removed"]

\* signOut in lib/auth resumes: dispatchEvent('auth-change') runs refreshUser
SignOutDispatch(r) ==
    /\ session.signOut = "removed"
    /\ r \in FreeSlots(session)
    /\ session' = [RefreshUser(session, r) EXCEPT !.signOut = "idle"]

\* the response has been sent; the worker serves the next call
Return(p) ==
    /\ pc[p] = "done"
    /\ Go(p, IdleFrame, "idle")
    /\ UNCHANGED <<events, numEvents, requests>>

\* ------------------------------------------------------- specifications
\* one call at a time: a handler runs from its call to its response alone
\* (it does not matter which worker serves it); pre records what the call
\* found, until its response has been sent
SeqWorker == "w1"

Alone(A) ==
    /\ A
    /\ pre' = IF pc[SeqWorker] \in {"idle", "done"} THEN Collections ELSE pre
    /\ UNCHANGED <<calls, session>>

NextSeq ==
    \/ Alone(\E u \in Users, a, b \in EventIds \cup {NoId} :
              ProposeCall(SeqWorker, u, a, b))
    \/ Alone(\E w \in Both : ProposeRead(SeqWorker, w))
    \/ Alone(ProposeSave(SeqWorker))
    \/ Alone(\E w \in Both : ProposeLock(SeqWorker, w))
    \/ Alone(\E u \in Users, id \in RequestIds \cup {NoId}, acc \in BOOLEAN :
              RespondCall(SeqWorker, u, id, acc))
    \/ Alone(\E w \in Both : RespondPopulate(SeqWorker, w))
    \/ Alone(RespondSave(SeqWorker))
    \/ Alone(\E w \in Both : RespondEventWrite(SeqWorker, w))
    \/ Alone(\E u \in Users, st \in StatusInputs :
              CreateEvent(SeqWorker, u, st, Slot.title, Slot.start_time,
                          Slot.end_time))
    \/ Alone(\E u \in Users, id \in EventIds, st \in StatusInputs :
              UpdateCall(SeqWorker, u, id, st, "omitted", NoTime, NoTime))
    \/ Alone(UpdateSave(SeqWorker))
    \/ Alone(\E u \in Users, id \in EventIds : DeleteCall(SeqWorker, u, id))
    \/ Alone(DeleteOne(SeqWorker))
    \/ Alone(Return(SeqWorker))

SpecSeq == Init /\ [][NextSeq]_vars

\* one call at a time on the two events of InitRace, with every title and
\* every instant a caller may send: the events are edited, deleted and
\* locked by a propose
NextEvents ==
    \/ Alone(\E u \in Users, id \in EventIds, st \in StatusInputs,
                 t \in TitleInputs, s \in TimeInputs, e \in TimeInputs :
              UpdateCall(SeqWorker, u, id, st, t, s, e))
    \/ Alone(UpdateSave(SeqWorker))
    \/ Alone(\E u \in Users, id \in EventIds : DeleteCall(SeqWorker, u, id))
    \/ Alone(DeleteOne(SeqWorker))
    \/ Alone(\E u \in Users, a, b \in EventIds :
              ProposeCall(SeqWorker, u, a, b))
    \/ Alone(\E w \in Both : ProposeRead(SeqWorker, w))
    \/ Alone(ProposeSave(SeqWorker))
    \/ Alone(\E w \in Both : ProposeLock(SeqWorker, w))
    \/ Alone(Return(SeqWorker))

SpecEvents == InitRace /\ [][NextEvents]_vars

\* one call at a time on the two events of InitRace, where any single
\* database write of propose or respond may reject
NextFail ==
    \/ Alone(\E u \in Users, a, b \in EventIds \cup {NoId} :
              ProposeCall(SeqWorker, u, a, b))
    \/ Alone(\E w \in Both : ProposeRead(SeqWorker, w))
    \/ Alone(ProposeSave(SeqWorker))
    \/ Alone(ProposeSaveFails(SeqWorker))
    \/ Alone(\E w \in Both : ProposeLock(SeqWorker, w))
    \/ Alone(\E w \in Both : ProposeLockFails(SeqWorker, w))
    \/ Alone(\E u \in Users, id \in RequestIds \cup {NoId}, acc \in BOOLEAN :
              RespondCall(SeqWorker, u, id, acc))
    \/ Alone(\E w \in Both : RespondPopulate(SeqWorker, w))
    \/ Alone(RespondSave(SeqWorker))
    \/ Alone(RespondSaveFails(SeqWorker))
    \/ Alone(\E w \in Both : RespondEventWrite(SeqWorker, w))
    \/ Alone(\E w \in Both : RespondEventWriteFails(SeqWorker, w))
    \/ Alone(Return(SeqWorker))

SpecFail == InitRace /\ [][NextFail]_vars

\* one call at a time on the two events of InitRace: the owners change the
\* status of their events, requests are proposed and answered, and the
\* marketplace and the requests of a user are listed
NextList ==
    \/ Alone(\E u \in Users, r \in MarketRoutes : ListSwappable(SeqWorker, u, r))
    \/ Alone(\E u \in Users : ListIncoming(SeqWorker, u))
    \/ Alone(\E u \in Users : ListOutgoing(SeqWorker, u))
    \/ Alone(\E u \in Users, a, b \in EventIds :
              ProposeCall(SeqWorker, u, a, b))
    \/ Alone(\E w \in Both : ProposeRead(SeqWorker, w))
    \/ Alone(ProposeSave(SeqWorker))
    \/ Alone(\E w \in Both : ProposeLock(SeqWorker, w))
    \/ Alone(\E u \in Users, id \in RequestIds, acc \in BOOLEAN :
              RespondCall(SeqWorker, u, id, acc))
    \/ Alone(\E w \in Both : RespondPopulate(SeqWorker, w))
    \/ Alone(RespondSave(SeqWorker))
    \/ Alone(\E w \in Both : RespondEventWrite(SeqWorker, w))
    \/ Alone(\E u \in Users, id \in EventIds, st \in StatusInputs :
              UpdateCall(SeqWorker, u, id, st, "omitted", NoTime, NoTime))
    \/ Alone(UpdateSave(SeqWorker))
    \/ Alone(Return(SeqWorker))

SpecList == InitRace /\ [][NextList]_vars

\* one call at a time on the two events of InitRace, by the primary routes
\* and by the routes named in the requirements; the owners change the status
\* of their events and delete them in between
NextAlias ==
    \/ Alone(\E u \in Users, a, b \in EventIds \cup {NoId} :
              ProposeCall(SeqWorker, u, a, b))
    \/ Alone(\E w \in Both : ProposeRead(SeqWorker, w))
    \/ Alone(ProposeSave(SeqWorker))
    \/ Alone(\E w \in Both : ProposeLock(SeqWorker, w))
    \/ Alone(\E u \in Users, id \in RequestIds \cup {NoId}, acc \in BOOLEAN :
              RespondCall(SeqWorker, u, id, acc))
    \/ Alone(\E w \in Both : RespondPopulate(SeqWorker, w))
    \/ Alone(RespondSave(SeqWorker))
    \/ Alone(\E w \in Both : RespondEventWrite(SeqWorker, w))
    \/ Alone(\E u \in Users, a, b \in EventIds \cup {NoId} :
              AliasProposeCall(SeqWorker, u, a, b))
    \/ Alone(\E w \in Both : AliasProposeRead(SeqWorker, w))
    \/ Alone(AliasProposeSave(SeqWorker))
    \/ Alone(\E w \in Both : AliasProposeLock(SeqWorker, w))
    \/ Alone(\E u \in Users, id \in RequestIds \cup {NoId}, acc \in BOOLEAN :
              AliasRespondCall(SeqWorker, u, id, acc))
    \/ Alone(\E w \in Both : AliasRespondPopulate(SeqWorker, w))
    \/ Alone(AliasRespondSave(SeqWorker))
    \/ Alone(\E w \in Both : AliasRespondEventWrite(SeqWorker, w))
    \/ Alone(\E u \in Users, id \in EventIds, st \in StatusInputs :
              UpdateCall(SeqWorker, u, id, st, "omitted", NoTime, NoTime))
    \/ Alone(UpdateSave(SeqWorker))
    \/ Alone(\E u \in Users, id \in EventIds : DeleteCall(SeqWorker, u, id))
    \/ Alone(DeleteOne(SeqWorker))
    \/ Alone(Return(SeqWorker))

SpecAlias == InitRace /\ [][NextAlias]_vars

\* the browser of one visitor: sign-in, sign-out and the user refreshes they
\* start, interleaved at every await
NextAuth ==
    \/ Browser(\E u \in Users : SignInCall(u))
    \/ Browser(\E ok \in BOOLEAN : SignInReply(ok))
    \/ Browser(\E r \in RefreshIds : SignInDispatch(r))
    \/ Browser(\E r \in RefreshIds : SignInRefresh(r))
    \/ Browser(\E r \in RefreshIds, ok \in BOOLEAN : RefreshReply(r, ok))
    \/ Browser(SignOutCall)
    \/ Browser(\E ok \in BOOLEAN : SignOutReply(ok))
    \/ Browser(\E r \in RefreshIds : SignOutDispatch(r))

SpecAuth == InitRace /\ [][NextAuth]_vars

\* every worker runs its handler; the handlers interleave at their awaits;
\* a run serves at most MaxCalls calls
Race(p, A) ==
    /\ pc[p] = "idle" => calls < MaxCalls
    /\ A
    /\ calls' = IF pc[p] = "idle" THEN calls + 1 ELSE calls
    /\ UNCHANGED <<pre, session>>

NextRace ==
    \E p \in Procs :
        \/ Race(p, \E u \in Users, a, b \in EventIds \cup {NoId} :
                      ProposeCall(p, u, a, b))
        \/ Race(p, \E w \in Both : ProposeRead(p, w))
        \/ Race(p, ProposeSave(p))
        \/ Race(p, \E w \in Both : ProposeLock(p, w))
        \/ Race(p, \E u \in Users, id \in RequestIds \cup {NoId}, acc \in BOOLEAN :
                      RespondCall(p, u, id, acc))
        \/ Race(p, \E w \in Both : RespondPopulate(p, w))
        \/ Race(p, RespondSave(p))
        \/ Race(p, \E w \in Both : RespondEventWrite(p, w))
        \/ Race(p, \E u \in Users, id \in EventIds, st \in StatusInputs :
                      UpdateCall(p, u, id, st, "omitted", NoTime, NoTime))
        \/ Race(p, UpdateSave(p))
        \/ Race(p, \E u \in Users, id \in EventIds : DeleteCall(p, u, id))
        \/ Race(p, DeleteOne(p))
        \/ Race(p, Return(p))

SpecRace == InitRace /\ [][NextRace]_vars

\* the swap handlers alone, interleaved at every await, for up to
\* MaxSwapCalls calls that name two different events: no event is created,
\* edited or deleted
Swap(p, A) ==
    /\ pc[p] = "idle" => calls < MaxSwapCalls
    /\ A
    /\ calls' = IF pc[p] = "idle" THEN calls + 1 ELSE calls
    /\ UNCHANGED <<pre, session>>

NextSwap ==
    \E p \in Procs :
        \/ Swap(p, \E u \in Users, a, b \in EventIds :
                     a # b /\ ProposeCall(p, u, a, b))
        \/ Swap(p, \E w \in Both : ProposeRead(p, w))
        \/ Swap(p, ProposeSave(p))
        \/ Swap(p, \E w \in Both : ProposeLock(p, w))
        \/ Swap(p, \E u \in Users, id \in RequestIds, acc \in BOOLEAN :
                     RespondCall(p, u, id, acc))
        \/ Swap(p, \E w \in Both : RespondPopulate(p, w))
        \/ Swap(p, RespondSave(p))
        \/ Swap(p, \E w \in Both : RespondEventWrite(p, w))
        \/ Swap(p, Return(p))

SpecSwap == InitRace /\ [][NextSwap]_vars

\* what worker p's handler does after its call: each await is answered by
\* the database and the event loop then runs the continuation
Continue(p) ==
    \/ Race(p, \E w \in Both : ProposeRead(p, w))
    \/ Race(p, ProposeSave(p))
    \/ Race(p, \E w \in Both : ProposeLock(p, w))
    \/ Race(p, \E w \in Both : RespondPopulate(p, w))
    \/ Race(p, RespondSave(p))
    \/ Race(p, \E w \in Both : RespondEventWrite(p, w))
    \/ Race(p, UpdateSave(p))
    \/ Race(p, DeleteOne(p))
    \/ Race(p, Return(p))

\* the interleaved handlers, none of them left waiting once the database
\* has answered: a continuation that stays ready is run
SpecLive == SpecRace /\ \A p \in Procs : WF_vars(Continue(p))

\* ================================================================ claims
Quiescent == \A p \in Procs : pc[p] = "idle"

\* the PENDING requests of rq that reference event e, as either side
PendingRefs(rq, e) ==
    {i \in 1..Len(rq) : /\ rq[i].status = "PENDING"
                        /\ \/ rq[i].requester_event_id = e
                           \/ rq[i].recipient_event_id = e}

\* worker p has answered a call of handler op
Finished(p, op) == pc[p] = "done" /\ frame[p].op = op

\* SpecSeq: the request a finished respond call named, as the call found it
RespondedTo == pre.requests[frame[SeqWorker].a]

\* SpecSeq: the finished respond call named a request that existed
RespondedExisting ==
    /\ Finished(SeqWorker, "respond")
    /\ frame[SeqWorker].a \in 1..Len(pre.requests)

\* SpecSeq: a finished respond call by the recipient on a PENDING request whose
\* two events existed
RespondedPending(accept) ==
    /\ RespondedExisting
    /\ frame[SeqWorker].accept = accept
    /\ RespondedTo.status = "PENDING"
    /\ RespondedTo.recipient_id = frame[SeqWorker].user
    /\ pre.events[RespondedTo.requester_event_id].exists
    /\ pre.events[RespondedTo.recipient_event_id].exists

\* SpecSeq: a finished propose call on two existing events, the first owned by
\* the caller
ProposedOwned ==
    /\ Finished(SeqWorker, "propose")
    /\ frame[SeqWorker].a \in EventIds /\ frame[SeqWorker].b \in EventIds
    /\ pre.events[frame[SeqWorker].a].exists
    /\ pre.events[frame[SeqWorker].b].exists
    /\ pre.events[frame[SeqWorker].a].user_id = frame[SeqWorker].user

\* C1: between calls, an existing event is SWAP_PENDING iff exactly one
\* PENDING request references it.  (Refuted: POST /api/events and
\* PUT /api/events/:id store a caller-supplied status SWAP_PENDING.)
C1_PendingIffOneRequest ==
    Quiescent =>
        \A e \in EventIds :
            events[e].exists =>
                (events[e].status = "SWAP_PENDING"
                    <=> Cardinality(PendingRefs(requests, e)) = 1)

\* SpecRace: worker p's finished propose named, when the run started, a
\* SWAPPABLE event of the caller and a SWAPPABLE event of another user
ValidPropose(p) ==
    /\ Finished(p, "propose")
    /\ frame[p].a \in EventIds /\ frame[p].b \in EventIds
    /\ ProposeCheck(frame[p].user, RaceEvents[frame[p].a], RaceEvents[frame[p].b])
          = "pass"
    /\ RaceEvents[frame[p].a].user_id # RaceEvents[frame[p].b].user_id

\* C2: when the only two calls of a run are propose calls naming the same
\* SWAPPABLE recipient event, exactly one is answered Created, the other
\* NotSwappable, and one PENDING request references that event.  (Refuted: both
\* read SWAPPABLE before either writes SWAP_PENDING.)
C2_OneProposeWins ==
    \A p, q \in Procs :
        (/\ p # q /\ calls = 2
         /\ ValidPropose(p) /\ ValidPropose(q)
         /\ frame[p].b = frame[q].b)
        => /\ {frame[p].code, frame[q].code} = {"Created", "NotSwappable"}
           /\ Cardinality(PendingRefs(requests, frame[p].b)) = 1

\* C3: an accept by the recipient of a PENDING request whose events exist is
\* answered OK and leaves the request ACCEPTED, each event owned by the other
\* event's owner before the call, and both events BUSY.
C3_AcceptSwapsOwners ==
    RespondedPending(TRUE) =>
        LET e1 == RespondedTo.requester_event_id
            e2 == RespondedTo.recipient_event_id
        IN  /\ frame[SeqWorker].code = "OK"
            /\ requests[frame[SeqWorker].a].status = "ACCEPTED"
            /\ events[e1].exists /\ events[e2].exists
            /\ events[e1].user_id = pre.events[e2].user_id
            /\ events[e2].user_id = pre.events[e1].user_id
            /\ events[e1].status = "BUSY" /\ events[e2].status = "BUSY"

\* C3 witness: an accepted swap of two events of different owners
C3_Witness ==
    /\ RespondedPending(TRUE)
    /\ frame[SeqWorker].code = "OK"
    /\ pre.events[RespondedTo.requester_event_id].user_id = "A"
    /\ pre.events[RespondedTo.recipient_event_id].user_id = "B"
    /\ events[RespondedTo.requester_event_id].user_id = "B"

\* C4: a reject by the recipient of a PENDING request whose events exist is
\* answered OK and leaves the request REJECTED, both events SWAPPABLE and
\* both owners as they were before the call.
C4_RejectReleases ==
    RespondedPending(FALSE) =>
        LET e1 == RespondedTo.requester_event_id
            e2 == RespondedTo.recipient_event_id
        IN  /\ frame[SeqWorker].code = "OK"
            /\ requests[frame[SeqWorker].a].status = "REJECTED"
            /\ events[e1].exists /\ events[e2].exists
            /\ events[e1].user_id = pre.events[e1].user_id
            /\ events[e2].user_id = pre.events[e2].user_id
            /\ events[e1].status = "SWAPPABLE" /\ events[e2].status = "SWAPPABLE"

\* C4 witness: a rejected request between two events that were SWAP_PENDING
C4_Witness ==
    /\ RespondedPending(FALSE)
    /\ frame[SeqWorker].code = "OK"
    /\ RespondedTo.requester_event_id # RespondedTo.recipient_event_id
    /\ pre.events[RespondedTo.requester_event_id].status = "SWAP_PENDING"
    /\ pre.events[RespondedTo.recipient_event_id].status = "SWAP_PENDING"

\* C5: a propose answered Created has added exactly one request, PENDING,
\* from the caller to the owner theirEvent had at the call, and has left
\* both events SWAP_PENDING.
C5_ProposeCreatesPending ==
    (Finished(SeqWorker, "propose") /\ frame[SeqWorker].code = "Created") =>
        LET f == frame[SeqWorker]
        IN  /\ requests = Append(pre.requests,
                   [exists |-> TRUE, requester_id |-> f.user,
                    requester_event_id |-> f.a,
                    recipient_id |-> pre.events[f.b].user_id,
                    recipient_event_id |-> f.b, status |-> "PENDING"])
            /\ events[f.a].status = "SWAP_PENDING"
            /\ events[f.b].status = "SWAP_PENDING"

\* C5 witness: A's event proposed against B's event
C5_Witness ==
    /\ Finished(SeqWorker, "propose") /\ frame[SeqWorker].code = "Created"
    /\ frame[SeqWorker].user = "A"
    /\ pre.events[frame[SeqWorker].b].user_id = "B"

\* C6: a propose on two existing events, the first the caller's, that are not
\* both SWAPPABLE is answered NotSwappable, adds no request and leaves both
\* statuses as they were.
C6_NotSwappableRefused ==
    (/\ ProposedOwned
     /\ \/ pre.events[frame[SeqWorker].a].status # "SWAPPABLE"
        \/ pre.events[frame[SeqWorker].b].status # "SWAPPABLE")
    => /\ frame[SeqWorker].code = "NotSwappable"
       /\ requests = pre.requests
       /\ events[frame[SeqWorker].a].status = pre.events[frame[SeqWorker].a].status
       /\ events[frame[SeqWorker].b].status = pre.events[frame[SeqWorker].b].status

\* C6 witness: the caller's event is SWAPPABLE, the other one is BUSY
C6_Witness ==
    /\ ProposedOwned
    /\ pre.events[frame[SeqWorker].a].status = "SWAPPABLE"
    /\ pre.events[frame[SeqWorker].b].status = "BUSY"
    /\ frame[SeqWorker].code = "NotSwappable"

\* C7: no event is referenced by more than one PENDING request.  (Refuted
\* by two interleaved propose calls.)
C7_AtMostOnePending ==
    \A e \in EventIds : Cardinality(PendingRefs(requests, e)) <= 1

\* C8 as stated: a respond on an ACCEPTED or REJECTED request is answered
\* AlreadyResolved and changes nothing.  (Refuted for a caller who is not the
\* recipient: the recipient check comes first and answers Forbidden.)
C8_ResolvedRefused ==
    (RespondedExisting /\ RespondedTo.status \in {"ACCEPTED", "REJECTED"})
    => /\ frame[SeqWorker].code = "AlreadyResolved"
       /\ Collections = pre

\* C8 amended: a respond by the recipient on an ACCEPTED or REJECTED request
\* is answered AlreadyResolved and changes nothing.
C8_ResolvedRefusedForRecipient ==
    (/\ RespondedExisting
     /\ RespondedTo.status \in {"ACCEPTED", "REJECTED"}
     /\ RespondedTo.recipient_id = frame[SeqWorker].user)
    => /\ frame[SeqWorker].code = "AlreadyResolved"
       /\ Collections = pre

\* C8 witness: the recipient tries to accept a request it has rejected
C8_Witness ==
    /\ RespondedExisting
    /\ RespondedTo.status = "REJECTED"
    /\ RespondedTo.recipient_id = frame[SeqWorker].user
    /\ frame[SeqWorker].accept
    /\ frame[SeqWorker].code = "AlreadyResolved"

\* C9: a respond by a user who is not the request's recipient is answered
\* Forbidden and changes nothing.
C9_NonRecipientForbidden ==
    (RespondedExisting /\ RespondedTo.recipient_id # frame[SeqWorker].user)
    => /\ frame[SeqWorker].code = "Forbidden"
       /\ Collections = pre

\* C9 witness: the requester tries to accept its own PENDING request
C9_Witness ==
    /\ RespondedExisting
    /\ RespondedTo.status = "PENDING"
    /\ RespondedTo.requester_id = frame[SeqWorker].user
    /\ RespondedTo.recipient_id # frame[SeqWorker].user
    /\ frame[SeqWorker].accept
    /\ frame[SeqWorker].code = "Forbidden"

\* C10: once a rejection has been answered, both events are SWAPPABLE with
\* the requester and the recipient as their owners, so the same propose passes
\* its checks again; and a propose that passes its checks is answered Created
\* and adds a PENDING request.
C10_ProposeAgainAfterReject ==
    /\ (/\ Finished(SeqWorker, "respond") /\ ~frame[SeqWorker].accept
        /\ frame[SeqWorker].code = "OK")
       => LET r == requests[frame[SeqWorker].a]
          IN  /\ events[r.requester_event_id].user_id = r.requester_id
              /\ events[r.recipient_event_id].user_id = r.recipient_id
              /\ ProposeCheck(r.requester_id, events[r.requester_event_id],
                              events[r.recipient_event_id]) = "pass"
    /\ (/\ ProposedOwned
        /\ pre.events[frame[SeqWorker].a].status = "SWAPPABLE"
        /\ pre.events[frame[SeqWorker].b].status = "SWAPPABLE")
       => /\ frame[SeqWorker].code = "Created"
          /\ Len(requests) = Len(pre.requests) + 1
          /\ requests[Len(requests)].status = "PENDING"

\* C10 witness: the pair of a REJECTED request is proposed again and Created
C10_Witness ==
    /\ Finished(SeqWorker, "propose") /\ frame[SeqWorker].code = "Created"
    /\ Len(requests) = 2
    /\ requests[1].status = "REJECTED"
    /\ requests[1].requester_id = frame[SeqWorker].user
    /\ requests[1].requester_event_id = frame[SeqWorker].a
    /\ requests[1].recipient_event_id = frame[SeqWorker].b
    /\ requests[1].requester_event_id # requests[1].recipient_event_id
    /\ requests[2].status = "PENDING"

\* a finished call of handler op by the owner of the event it named, which
\* existed when the call arrived
OwnerCalled(op) ==
    /\ Finished(SeqWorker, op)
    /\ frame[SeqWorker].a \in EventIds
    /\ pre.events[frame[SeqWorker].a].exists
    /\ pre.events[frame[SeqWorker].a].user_id = frame[SeqWorker].user

\* C11: a delete by the owner of an event that is SWAP_PENDING and referenced
\* by a PENDING request is refused: it is not answered OK and the event is
\* stored as it was.  (Refuted: the delete handler never looks at the status.)
C11_DeleteLockedRefused ==
    (/\ OwnerCalled("delete")
     /\ pre.events[frame[SeqWorker].a].status = "SWAP_PENDING"
     /\ PendingRefs(pre.requests, frame[SeqWorker].a) # {})
    => /\ frame[SeqWorker].code # "OK"
       /\ events[frame[SeqWorker].a] = pre.events[frame[SeqWorker].a]

\* the event a finished update or delete call named, as the call found it
Named == pre.events[frame[SeqWorker].a]

\* C12: an owner's update of a SWAP_PENDING event is answered Locked and
\* changes nothing (status, title, times, owner); an owner's update of a BUSY
\* or SWAPPABLE event is answered OK, stores every field the call supplied
\* and keeps the owner.
C12_LockedUpdateRefused ==
    /\ (OwnerCalled("update") /\ Named.status = "SWAP_PENDING")
       => /\ frame[SeqWorker].code = "Locked"
          /\ Collections = pre
    /\ (OwnerCalled("update") /\ Named.status \in {"BUSY", "SWAPPABLE"})
       => LET f == frame[SeqWorker]
              e == events[f.a]
          IN  /\ f.code = "OK"
              /\ e.exists /\ e.user_id = Named.user_id
              /\ e.status = IF f.st = "omitted" THEN Named.status ELSE f.st
              /\ e.title = IF f.title = "omitted" THEN Named.title ELSE f.title
              /\ e.start_time = IF f.start_time = NoTime THEN Named.start_time
                                ELSE f.start_time
              /\ e.end_time = IF f.end_time = NoTime THEN Named.end_time
                              ELSE f.end_time

\* C12 witness: the owner of an event locked by a PENDING request sends a new
\* title, new times and a new status, and is answered Locked
C12_Witness ==
    /\ OwnerCalled("update")
    /\ Named.status = "SWAP_PENDING"
    /\ PendingRefs(pre.requests, frame[SeqWorker].a) # {}
    /\ frame[SeqWorker].st = "BUSY"
    /\ frame[SeqWorker].title \in Titles /\ frame[SeqWorker].title # Named.title
    /\ frame[SeqWorker].start_time \in Times
    /\ frame[SeqWorker].start_time # Named.start_time
    /\ frame[SeqWorker].code = "Locked"

\* C13: no create or update call makes an event SWAP_PENDING: after such a
\* call every SWAP_PENDING event was SWAP_PENDING already when the call
\* arrived.  (Refuted: both handlers store the status the caller sent.)
C13_OwnerNeverSetsPending ==
    (Finished(SeqWorker, "create") \/ Finished(SeqWorker, "update"))
    => \A e \in EventIds :
           (events[e].exists /\ events[e].status = "SWAP_PENDING")
           => (pre.events[e].exists /\ pre.events[e].status = "SWAP_PENDING")

\* C14: a propose by the owner of myEvent on a theirEvent of the same owner
\* (the same event included) is refused and changes nothing, here in the case
\* where nothing else is wrong with the call (both events SWAPPABLE); and no
\* stored request has its requester as its recipient.  (Refuted: the handler
\* has no such check; SWAPPABLE events of one user are accepted.)
C14_SelfSwapRefused ==
    /\ (/\ ProposedOwned
        /\ pre.events[frame[SeqWorker].b].user_id = frame[SeqWorker].user
        /\ pre.events[frame[SeqWorker].a].status = "SWAPPABLE"
        /\ pre.events[frame[SeqWorker].b].status = "SWAPPABLE")
       => /\ frame[SeqWorker].code = "SelfSwap"
          /\ Collections = pre
    /\ \A i \in 1..Len(requests) : requests[i].requester_id # requests[i].recipient_id

\* a finished propose call naming two event ids, the first an existing event
\* that the caller did not own
ProposedNotOwned ==
    /\ Finished(SeqWorker, "propose")
    /\ frame[SeqWorker].a \in EventIds /\ frame[SeqWorker].b \in EventIds
    /\ pre.events[frame[SeqWorker].a].exists
    /\ pre.events[frame[SeqWorker].a].user_id # frame[SeqWorker].user

\* C15 as stated: a propose by a caller who does not own myEvent is answered
\* Forbidden and changes nothing.  (Refuted when theirEvent does not exist:
\* the existence check comes first and answers NotFound.)
C15_NotOwnerForbidden ==
    ProposedNotOwned
    => /\ frame[SeqWorker].code = "Forbidden"
       /\ Collections = pre

\* C15 amended: a propose naming two existing events by a caller who does not
\* own myEvent is answered Forbidden and changes nothing.
C15_NotOwnerForbiddenBothExist ==
    (ProposedNotOwned /\ pre.events[frame[SeqWorker].b].exists)
    => /\ frame[SeqWorker].code = "Forbidden"
       /\ Collections = pre

\* C15 witness: B offers A's SWAPPABLE event against its own SWAPPABLE event
C15_Witness ==
    /\ ProposedNotOwned
    /\ frame[SeqWorker].user = "B"
    /\ pre.events[frame[SeqWorker].a].status = "SWAPPABLE"
    /\ pre.events[frame[SeqWorker].b].exists
    /\ pre.events[frame[SeqWorker].b].user_id = "B"
    /\ pre.events[frame[SeqWorker].b].status = "SWAPPABLE"
    /\ frame[SeqWorker].code = "Forbidden"

\* a finished call of handler op on an existing event owned by another user
StrangerCalled(op) ==
    /\ Finished(SeqWorker, op)
    /\ frame[SeqWorker].a \in EventIds
    /\ Named.exists
    /\ Named.user_id # frame[SeqWorker].user

\* C16: an update or a delete of an event owned by another user is answered
\* NotFound and changes nothing: the event exists with the same status,
\* title, times and owner.
C16_OnlyOwnerEdits ==
    (StrangerCalled("update") \/ StrangerCalled("delete"))
    => /\ frame[SeqWorker].code = "NotFound"
       /\ Collections = pre

\* C16 witness: B sends a new title, new times and a new status for A's
\* SWAPPABLE event
C16_Witness ==
    /\ StrangerCalled("update")
    /\ frame[SeqWorker].user = "B"
    /\ Named.status = "SWAPPABLE"
    /\ frame[SeqWorker].st = "BUSY"
    /\ frame[SeqWorker].title \in Titles /\ frame[SeqWorker].title # Named.title
    /\ frame[SeqWorker].end_time \in Times
    /\ frame[SeqWorker].end_time # Named.end_time
    /\ frame[SeqWorker].code = "NotFound"

\* C17: no step removes a request, and no step changes the status of a
\* request that is ACCEPTED or REJECTED.  (Refuted: two interleaved respond
\* calls both load the request while it is PENDING and both save their status.)
C17_ResolvedOnce ==
    [][/\ Len(requests') >= Len(requests)
       /\ \A i \in 1..Len(requests) :
              requests[i].status \in {"ACCEPTED", "REJECTED"}
              => requests'[i].status = requests[i].status]_vars

\* worker p takes the step
Moved(p) == pc'[p] # pc[p] \/ frame'[p] # frame[p]

\* C18: a step that changes the owner of an event is an event write of a
\* respond with accept = true, and a step that changes the status of a request
\* is the request save of a respond; updates, proposes and rejections change
\* no owner.
C18_OwnerOnlyByAccept ==
    [][/\ \A e \in EventIds :
              (/\ events[e].exists /\ events'[e].exists
               /\ events'[e].user_id # events[e].user_id)
              => \E p \in Procs : /\ Moved(p)
                                  /\ pc[p] = "r_events"
                                  /\ frame[p].op = "respond"
                                  /\ frame[p].accept
       /\ \A i \in 1..Len(requests) :
              requests'[i].status # requests[i].status
              => \E p \in Procs : /\ Moved(p)
                                  /\ pc[p] = "r_save"
                                  /\ frame[p].op = "respond"]_vars

\* C18 witness: an accepted request has moved A's event 1 to B, while another
\* worker is in the middle of an update, a propose or a rejection
C18_Witness ==
    /\ events[1].exists /\ events[1].user_id = "B"
    /\ \E i \in 1..Len(requests) : requests[i].status = "ACCEPTED"
    /\ \E p \in Procs :
          \/ pc[p] \in {"u_save", "p_save", "p_lock"}
          \/ pc[p] = "r_events" /\ ~frame[p].accept

\* C19: a propose between events of two different owners that is answered
\* with a server error has left no PENDING request
\* of its own and no event SWAP_PENDING that was not SWAP_PENDING when the
\* call arrived.  (Refuted: the catch block only answers 500; the saved
\* request and the lock that succeeded stay.)
C19_FailedProposeRolledBack ==
    (/\ ProposedOwned
     /\ pre.events[frame[SeqWorker].b].user_id # frame[SeqWorker].user
     /\ frame[SeqWorker].code = "ServerError")
    => /\ \A i \in (Len(pre.requests) + 1)..Len(requests) :
              requests[i].status # "PENDING"
       /\ \A e \in EventIds :
              (events[e].exists /\ events[e].status = "SWAP_PENDING")
              => pre.events[e].status = "SWAP_PENDING"

\* C20: a respond by the recipient of a PENDING request of another user that
\* is answered with a server error leaves the request PENDING.  (Refuted: the request's status
\* is saved before the event writes, and the catch block does not restore it.)
C20_FailedRespondStaysPending ==
    (/\ \E acc \in BOOLEAN : RespondedPending(acc)
     /\ RespondedTo.requester_id # RespondedTo.recipient_id
     /\ frame[SeqWorker].code = "ServerError")
    => requests[frame[SeqWorker].a].status = "PENDING"

\* request i is a request between two users about two existing events
ProperRequest(i) ==
    /\ requests[i].requester_id # requests[i].recipient_id
    /\ requests[i].requester_event_id # requests[i].recipient_event_id
    /\ events[requests[i].requester_event_id].exists
    /\ events[requests[i].recipient_event_id].exists

\* event x of a pair shows the effect of an acceptance in favour of newOwner
\* while event y is still locked and owned by yOwner
HalfAccepted(x, newOwner, y, yOwner) ==
    /\ events[x].status = "BUSY" /\ events[x].user_id = newOwner
    /\ events[y].status = "SWAP_PENDING" /\ events[y].user_id = yOwner

\* C21: when a respond on a request between two users has written one of its
\* two events and every other worker is free to serve a call, the state does
\* not show one event of the pair with the response applied (swapped and
\* BUSY, or SWAPPABLE) and the other still SWAP_PENDING with its old owner.
\* (Refuted: the two event writes are two database operations.)
C21_NoPartialExchange ==
    \A p \in Procs :
        (/\ pc[p] = "r_events" /\ Cardinality(frame[p].todo) = 1
         /\ ProperRequest(frame[p].a)
         /\ \A q \in Procs \ {p} : pc[q] = "idle")
        => LET r == requests[frame[p].a]
               e1 == r.requester_event_id
               e2 == r.recipient_event_id
           IN  /\ ~(/\ r.status = "ACCEPTED"
                    /\ \/ HalfAccepted(e1, r.recipient_id, e2, r.recipient_id)
                       \/ HalfAccepted(e2, r.requester_id, e1, r.requester_id))
               /\ ~(/\ r.status = "REJECTED"
                    /\ \/ /\ events[e1].status = "SWAPPABLE"
                          /\ events[e2].status = "SWAP_PENDING"
                       \/ /\ events[e2].status = "SWAPPABLE"
                          /\ events[e1].status = "SWAP_PENDING")

\* C22: a step that takes an event that is locked for a PENDING request
\* between two users from
\* SWAP_PENDING to SWAPPABLE is an event write of a rejection, and no PENDING
\* request other than the rejected one references the event at that moment.  (Refuted: the release is written
\* without looking at the other requests that reference the event.)
C22_LockHeldUntilRejected ==
    [][\A e \in EventIds :
          (/\ events[e].exists /\ events'[e].exists
           /\ events[e].status = "SWAP_PENDING"
           /\ \E i \in PendingRefs(requests, e) : ProperRequest(i)
           /\ events'[e].status = "SWAPPABLE")
          => \E p \in Procs :
                 /\ Moved(p)
                 /\ pc[p] = "r_events" /\ ~frame[p].accept
                 /\ PendingRefs(requests, e) \ {frame[p].a} = {}]_vars

\* in the collections c, every SWAP_PENDING event is referenced by a PENDING
\* request
NoStuckLock(c) ==
    \A e \in EventIds :
        (c.events[e].exists /\ c.events[e].status = "SWAP_PENDING")
        => PendingRefs(c.requests, e) # {}

\* C23: a propose or a respond on a request between two users that is
\* answered with a server error after one of its writes has rejected (for a
\* respond: one of the two event writes, the other one has been applied), and
\* that found every SWAP_PENDING event referenced by a PENDING request,
\* leaves it so.  (Refuted: a rejection whose release of one event fails has
\* already stored REJECTED.)
C23_FailureLeavesNoStuckLock ==
    (/\ \/ /\ ProposedOwned
           /\ pre.events[frame[SeqWorker].b].user_id # frame[SeqWorker].user
        \/ /\ \E acc \in BOOLEAN : RespondedPending(acc)
           /\ RespondedTo.requester_id # RespondedTo.recipient_id
           /\ events # pre.events
     /\ frame[SeqWorker].code = "ServerError"
     /\ NoStuckLock(pre))
    => NoStuckLock(Collections)

\* a finished respond call on a PENDING request of which a referenced event
\* did not exist when the call arrived
RespondedOrphan ==
    /\ RespondedExisting
    /\ RespondedTo.status = "PENDING"
    /\ \/ ~pre.events[RespondedTo.requester_event_id].exists
       \/ ~pre.events[RespondedTo.recipient_event_id].exists

Written(p) ==
    IF pc[p] # "r_events" \/ frame'[p].todo = frame[p].todo \/ pc'[p] = "idle"
    THEN NoId
    ELSE IF "requester" \in frame[p].todo /\ "requester" \notin frame'[p].todo
         THEN frame[p].swapRequest.requester_event_id
         ELSE frame[p].swapRequest.recipient_event_id

\* C25: an event write of the rejection of a request between two users that
\* finds its event BUSY or SWAPPABLE
\* leaves the event's status as it is, and the call is not answered OK.
\* (Refuted: the release is findByIdAndUpdate(id, { status: 'SWAPPABLE' })
\* whatever the stored status.)
C25_ReleaseOnlyLocked ==
    [][\A p \in Procs :
          (/\ Moved(p) /\ pc[p] = "r_events" /\ ~frame[p].accept
           /\ Written(p) # NoId
           /\ ProperRequest(frame[p].a)
           /\ events[Written(p)].exists
           /\ events[Written(p)].status \in {"BUSY", "SWAPPABLE"})
          => /\ events'[Written(p)].status = events[Written(p)].status
             /\ frame'[p].code # "OK"]_vars

\* worker p serves a propose or a respond between two users about two events
ProperCall(p) ==
    \/ /\ frame[p].op = "propose"
       /\ frame[p].a # frame[p].b
       /\ frame[p].recipientEvent.user_id # frame[p].user
    \/ /\ frame[p].op = "respond"
       /\ frame[p].swapRequest.requester_id # frame[p].swapRequest.recipient_id
       /\ frame[p].swapRequest.requester_event_id
             # frame[p].swapRequest.recipient_event_id

\* the change of event e in a step of worker p is a lock of a SWAPPABLE
\* event, a release of a SWAP_PENDING event by a rejection, or an acceptance
\* that takes a SWAP_PENDING event to BUSY and changes its owner
LegalSwapTransition(p, e) ==
    \/ /\ pc[p] = "p_lock"
       /\ events[e].status = "SWAPPABLE" /\ events'[e].status = "SWAP_PENDING"
    \/ /\ pc[p] = "r_events" /\ ~frame[p].accept
       /\ events[e].status = "SWAP_PENDING" /\ events'[e].status = "SWAPPABLE"
    \/ /\ pc[p] = "r_events" /\ frame[p].accept
       /\ events[e].status = "SWAP_PENDING" /\ events'[e].status = "BUSY"
       /\ events'[e].user_id # events[e].user_id

\* C26, for the steps of propose and respond between two users: every change
\* of an event's status is a legal transition of the state machine.  (The
\* owner's transitions are the subject of C13.  Refuted: the lock, the
\* release and the acceptance write their status whatever the stored one.)
C26_LegalTransitions ==
    [][\A p \in Procs, e \in EventIds :
          (/\ Moved(p) /\ frame[p].op \in {"propose", "respond"}
           /\ ProperCall(p)
           /\ events[e].exists /\ events'[e].exists
           /\ events'[e].status # events[e].status)
          => LegalSwapTransition(p, e)]_vars

\* C27: every stored event ends strictly after it starts.  (Refuted: the
\* update handler assigns start_time and end_time without comparing them.)
C27_EndAfterStart ==
    \A e \in EventIds :
        events[e].exists => events[e].end_time > events[e].start_time


\* the documents of a listing
Range(s) == {s[i] : i \in DOMAIN s}

\* a listing has been answered
Listed(ops) == pc[SeqWorker] = "done" /\ frame[SeqWorker].op \in ops

NewestFirst(S) ==
    CHOOSE s \in Orderings(S) :
        \A i, j \in 1..Cardinality(S) : i < j => s[i] > s[j]

\* C29: listIncoming(user) returns exactly the requests whose recipient is
\* the user and listOutgoing(user) exactly those whose requester is the
\* user, the newest first, and neither changes a request or an event.
C29_ListsExactNewestFirst ==
    /\ Listed({"incoming"}) =>
          /\ frame[SeqWorker].data =
                NewestFirst({i \in 1..Len(pre.requests) :
                    pre.requests[i].recipient_id = frame[SeqWorker].user})
          /\ Collections = pre
    /\ Listed({"outgoing"}) =>
          /\ frame[SeqWorker].data =
                NewestFirst({i \in 1..Len(pre.requests) :
                    pre.requests[i].requester_id = frame[SeqWorker].user})
          /\ Collections = pre

\* worker p serves a propose or a respond that has not answered yet
Serving(p) ==
    /\ frame[p].op \in {"propose", "respond"}
    /\ pc[p] \notin {"idle", "done"}

\* the codes a propose or a respond answers with
Answers ==
    {"Created", "OK", "BadRequest", "NotFound", "Forbidden", "NotSwappable",
     "AlreadyResolved", "ServerError"}

\* C30: under fair scheduling, every propose and every respond that has been
\* called answers, with success or with an explicit failure, whatever the
\* other worker does to the same events meanwhile; none waits forever.
C30_CallsTerminate ==
    \A p \in Procs :
        Serving(p) ~> (pc[p] = "done" /\ frame[p].code \in Answers)

\* a propose has answered while the other worker's propose or respond on
\* the same request or events was under way
C30_Witness ==
    \E p, q \in Procs :
        /\ p # q
        /\ pc[p] = "done" /\ frame[p].op = "propose"
        /\ frame[p].code = "Created"
        /\ Serving(q)
        /\ frame[q].op = "propose" =>
              {frame[q].a, frame[q].b} \cap {frame[p].a, frame[p].b} # {}
        /\ frame[q].op = "respond" =>
              /\ FindRequest(frame[q].a).exists
              /\ {FindRequest(frame[q].a).requester_event_id,
                  FindRequest(frame[q].a).recipient_event_id}
                    \cap {frame[p].a, frame[p].b} # {}

\* C31: in respond, the events are written before the request's status: the
\* step that takes a request between two users out of PENDING does not leave
\* both of its events SWAP_PENDING and owned as before the response.
\* (Refuted: swapRequest.save() comes first, the event writes after it.)
C31_EffectBeforeStatus ==
    [][\A i \in 1..Len(requests) :
          (/\ ProperRequest(i)
           /\ requests[i].status = "PENDING"
           /\ requests'[i].status \in {"ACCEPTED", "REJECTED"})
          => LET e1 == requests[i].requester_event_id
                 e2 == requests[i].recipient_event_id
             IN  ~(/\ events'[e1].status = "SWAP_PENDING"
                   /\ events'[e2].status = "SWAP_PENDING"
                   /\ events'[e1].user_id = requests[i].requester_id
                   /\ events'[e2].user_id = requests[i].recipient_id)]_vars

\* the events user u owns
Owned(u) == {e \in EventIds : events[e].exists /\ events[e].user_id = u}

\* C35: an exchange of owners is a permutation: with propose and respond
\* calls only, however interleaved, every user owns as many events whenever
\* no call is in flight as at the start (one each).
\* (Refuted: an accept that loaded the owners before another exchange writes
\* them back over it, one event at a time.)
C35_OwnershipPermutation ==
    Quiescent => \A u \in Users : Cardinality(Owned(u)) = 1

\* C32: when an event write of an accepted request between two users changes
\* the owner of an event, the event belongs at that moment to the party of
\* the request on that side: the requester event to the requester, the
\* recipient event to the recipient.
\* (Refuted: the new owner is computed from the copies populated earlier, and
\* the stored owner is not looked at when the event is saved.)
C32_AcceptTakesFromParty ==
    [][\A p \in Procs :
          (/\ Moved(p) /\ pc[p] = "r_events" /\ frame[p].accept
           /\ Written(p) # NoId
           /\ ProperRequest(frame[p].a)
           /\ events'[Written(p)].user_id # events[Written(p)].user_id)
          => LET r == requests[frame[p].a]
             IN  /\ Written(p) = r.requester_event_id
                      => events[Written(p)].user_id = r.requester_id
                 /\ Written(p) = r.recipient_event_id
                      => events[Written(p)].user_id = r.recipient_id]_vars

\* both workers have answered OK to a respond to the same request between
\* two users: each call found the request PENDING and its caller the recipient
BothResponded(p, q) ==
    /\ p # q
    /\ Finished(p, "respond") /\ Finished(q, "respond")
    /\ frame[p].code = "OK" /\ frame[q].code = "OK"
    /\ frame[p].a = frame[q].a
    /\ FindRequest(frame[p].a).exists
    /\ ProperRequest(frame[p].a)

\* C33: two overlapping accepts of the same PENDING request exchange the
\* owners exactly once: when both have answered, the requester event belongs
\* to the recipient and the recipient event to the requester.
\* (Refuted: the second accept, admitted on its stale copy of the request,
\* populates the swapped events and swaps them back.)
C33_DoubleAcceptSwapsOnce ==
    \A p, q \in Procs :
        (BothResponded(p, q) /\ frame[p].accept /\ frame[q].accept)
        => LET r == requests[frame[p].a]
           IN  /\ events[r.requester_event_id].user_id = r.recipient_id
               /\ events[r.recipient_event_id].user_id = r.requester_id

\* C34: an accept and a reject of the same PENDING request that overlap leave
\* the events as the request's final status says: ACCEPTED with the owners
\* exchanged and both events BUSY, or REJECTED with the owners as they were
\* and both events SWAPPABLE.
\* (Refuted: both calls pass the PENDING check and each writes its own status
\* and its own event effect; the last write of each document wins.)
C34_AcceptRejectConsistent ==
    \A p, q \in Procs :
        (BothResponded(p, q) /\ frame[p].accept /\ ~frame[q].accept)
        => LET r == requests[frame[p].a]
               e1 == events[r.requester_event_id]
               e2 == events[r.recipient_event_id]
           IN  /\ r.status = "ACCEPTED" =>
                     /\ e1.user_id = r.recipient_id /\ e2.user_id = r.requester_id
                     /\ e1.status = "BUSY" /\ e2.status = "BUSY"
               /\ r.status = "REJECTED" =>
                     /\ e1.user_id = r.requester_id /\ e2.user_id = r.recipient_id
                     /\ e1.status = "SWAPPABLE" /\ e2.status = "SWAPPABLE"

\* C36: referential integrity: the requester event and the recipient event
\* of every PENDING request exist.
\* (Refuted: the delete handler removes an event whatever its status and
\* whatever requests reference it.)
C36_PendingEventsExist ==
    \A i \in 1..Len(requests) :
        requests[i].status = "PENDING"
        => /\ events[requests[i].requester_event_id].exists
           /\ events[requests[i].recipient_event_id].exists

\* C37: a PENDING request stays resolvable: whatever has happened before, a
\* respond by the recipient of a PENDING request between two users is
\* answered OK and leaves the request ACCEPTED or REJECTED as asked.
\* (Refuted: once one of its events has been deleted, every respond is
\* answered 404 before anything is written.)
C37_PendingResolvable ==
    (/\ RespondedExisting
     /\ RespondedTo.status = "PENDING"
     /\ RespondedTo.recipient_id = frame[SeqWorker].user
     /\ RespondedTo.requester_id # RespondedTo.recipient_id)
    => /\ frame[SeqWorker].code = "OK"
       /\ requests[frame[SeqWorker].a].status = NewStatus(frame[SeqWorker].accept)

\* the requests that existed at the call are stored as they were, except i
SameRequestsBut(i) ==
    /\ Len(requests) >= Len(pre.requests)
    /\ \A j \in 1..Len(pre.requests) : j # i => requests[j] = pre.requests[j]

\* the events are stored as they were, except those in S
SameEventsBut(S) ==
    \A e \in EventIds \ S : events[e] = pre.events[e]

\* C38: a propose changes no event other than the two it names and no
\* request that existed, adding at most one; a respond changes no request
\* other than the one it names, adds none, and changes no event other than
\* the two that request references.
C38_TouchOnlyOwnRecords ==
    /\ Finished(SeqWorker, "propose") =>
          /\ SameEventsBut({frame[SeqWorker].a, frame[SeqWorker].b})
          /\ SameRequestsBut(NoId)
          /\ Len(requests) <= Len(pre.requests) + 1
    /\ Finished(SeqWorker, "respond") =>
          /\ SameRequestsBut(frame[SeqWorker].a)
          /\ Len(requests) = Len(pre.requests)
          /\ IF RespondedExisting
             THEN SameEventsBut({RespondedTo.requester_event_id,
                                 RespondedTo.recipient_event_id})
             ELSE SameEventsBut({})

\* a respond has released the one event its request references, while
\* another event and another request were stored
C38_Witness ==
    /\ RespondedExisting
    /\ frame[SeqWorker].code = "OK"
    /\ Len(pre.requests) = MaxRequests
    /\ requests[frame[SeqWorker].a] # RespondedTo
    /\ \E e \in EventIds \ {RespondedTo.requester_event_id,
                            RespondedTo.recipient_event_id} :
          pre.events[e].exists

\* the document with the given id in a collection, or null
EventIn(c, id) == IF id \in EventIds THEN c.events[id] ELSE NoEvent

RequestIn(c, id) ==
    IF id \in 1..Len(c.requests) THEN c.requests[id] ELSE NoRequest

\* an answer together with the collections it leaves
Outcome(code, ev, rq) == [code |-> code, events |-> ev, requests |-> rq]

\* what POST /api/swap-requests, served on its own, answers and stores for
\* the collections c and the body { mySlotId: a, theirSlotId: b }
ProposeOutcome(c, user, a, b) ==
    IF a = NoId \/ b = NoId THEN Outcome("BadRequest", c.events, c.requests)
    ELSE LET verdict == ProposeCheck(user, EventIn(c, a), EventIn(c, b))
         IN  IF verdict # "pass" THEN Outcome(verdict, c.events, c.requests)
             ELSE Outcome("Created",
                     UpdateStatusById(UpdateStatusById(c.events, a, LockStatus),
                                      b, LockStatus),
                     Append(c.requests,
                            NewSwapRequest(user, a, b, EventIn(c, b))))

\* what PUT /api/swap-requests/:id/respond, served on its own, answers and
\* stores for the collections c
RespondOutcome(c, user, id, accept) ==
    IF id = NoId THEN Outcome("BadRequest", c.events, c.requests)
    ELSE LET r == RequestIn(c, id)
             e1 == EventIn(c, r.requester_event_id)
             e2 == EventIn(c, r.recipient_event_id)
             verdict == RespondCheck(user, r, e1, e2)
             rq == [c.requests EXCEPT ![id].status = NewStatus(accept)]
             released ==
                 UpdateStatusById(
                     UpdateStatusById(c.events, r.requester_event_id,
                                      ReleasedStatus),
                     r.recipient_event_id, ReleasedStatus)
             half == [c.events EXCEPT ![r.requester_event_id] =
                         SaveEvent(@, e1, SwappedOwner("requester", e1, e2),
                                   AcceptedStatus)]
             swapped == [half EXCEPT ![r.recipient_event_id] =
                            SaveEvent(@, e2, SwappedOwner("recipient", e1, e2),
                                      AcceptedStatus)]
         IN  IF verdict # "pass" THEN Outcome(verdict, c.events, c.requests)
             ELSE Outcome("OK", IF accept THEN swapped ELSE released, rq)

\* the answer of the finished call and the collections it has left
Observed == Outcome(frame[SeqWorker].code, events, requests)

\* C39: the routes named in the requirements behave as the primary ones: for
\* every state and every input, POST /api/swap-request answers and stores
\* what POST /api/swap-requests does for the same two event ids, and
\* POST /api/swap-response/:requestId what PUT /api/swap-requests/:id/respond
\* does for the same request id and the same accept.
C39_AliasesBehaveAsPrimary ==
    /\ pc[SeqWorker] = "done" /\ frame[SeqWorker].op \in {"propose", "swap-request"}
          => Observed = ProposeOutcome(pre, frame[SeqWorker].user,
                                       frame[SeqWorker].a, frame[SeqWorker].b)
    /\ pc[SeqWorker] = "done" /\ frame[SeqWorker].op \in {"respond", "swap-response"}
          => Observed = RespondOutcome(pre, frame[SeqWorker].user,
                                       frame[SeqWorker].a, frame[SeqWorker].accept)

\* a request between two users has been accepted through
\* POST /api/swap-response/:requestId and the events have been written
C39_Witness ==
    /\ Finished(SeqWorker, "swap-response")
    /\ frame[SeqWorker].accept
    /\ frame[SeqWorker].code = "OK"
    /\ requests[frame[SeqWorker].a].requester_id # requests[frame[SeqWorker].a].recipient_id
    /\ events # pre.events

\* every getCurrentUser has been answered and no sign-in or sign-out is under
\* way
Settled ==
    /\ \A r \in RefreshIds : session.refresh[r] = NoUser
    /\ session.signIn.pc = "idle"
    /\ session.signOut = "idle"

\* C40: signOut always removes the stored token, whether or not the server
\* call succeeds, and once every in-flight user refresh has settled after a
\* sign-out, with no token stored, the AuthContext user is null: a refresh
\* started before the sign-out and answered after it does not restore a
\* signed-in user.
\* (Refuted in its second half: the answer of a getCurrentUser sent before the
\* sign-out is applied by setUser without a look at the stored token.)
C40_SignOutClearsSession ==
    /\ [][\A ok \in BOOLEAN : SignOutReply(ok) => session'.token = NoUser]_vars
    /\ [](Settled /\ session.out /\ session.token = NoUser
             => session.user = NoUser)

====
